---------------------------- MODULE Spec2Model ----------------------------
(***************************************************************************)
(* A model of src/dqn.cpp: the bounded replay memory with its minibatch    *)
(* assembly (DQN::AddTransition, DQN::Update) and the screen preprocessing *)
(* transform (PreprocessScreen).                                           *)
(*                                                                         *)
(* Conventions.                                                            *)
(*  - C++ containers are 0-based; a std::deque is a TLA+ sequence, so the  *)
(*    element at C++ index k is seq[k + 1].  Flat std::array buffers are   *)
(*    functions over 0 .. size-1 so that the offsets of the source are     *)
(*    kept as written.                                                     *)
(*  - A boost::optional<FrameDataSp> is a sequence of length 0 (empty) or  *)
(*    1 (holding the frame).                                               *)
(*  - assert(...) aborts the process when its condition is false.          *)
(*  - The doubles of PreprocessScreen are exact rationals.  x_ratio and    *)
(*    y_ratio have denominator kCroppedFrameSize, so every per-axis weight *)
(*    is held as its numerator over kCroppedFrameSize.  IEEE rounding is   *)
(*    not modelled: where an exact value is an integer the double may lie  *)
(*    just below it and truncate to one less (palette code 12 in           *)
(*    RGBToGrayscale, some running sums of resulting_color).               *)
(*  - The replay capacity is at least 1.                                   *)
(***************************************************************************)
EXTENDS Integers, Sequences, FiniteSets

(***************************************************************************)
(* Sizes.  dqn.hpp fixes kCroppedFrameSize, kInputFrameCount,              *)
(* kMinibatchSize and kOutputCount; the model scales them down.            *)
(***************************************************************************)
kCroppedFrameSize == 3
kInputFrameCount == 2
kMinibatchSize == 2
kOutputCount == 2
MaxCapacity == 3
MaxPush == 4
MaxWidth == 20
MaxHeight == 26

kCroppedFrameDataSize == kCroppedFrameSize * kCroppedFrameSize
kInputDataSize == kCroppedFrameDataSize * kInputFrameCount

VARIABLES
  \* ---- DQN (replay memory and Update) ----
  replay_memory_capacity_,  \* const member, fixed at construction
  replay_memory_,           \* std::deque<Transition>
  pushes,                   \* history: number of AddTransition calls so far
  pc,                       \* "idle" | "Update" (end of Update's body) | "aborted" | "crashed"
  update_size,              \* history: replay_memory_.size() when Update was entered
  transitions,              \* Update's local std::vector<int> of sampled indices
  transition,               \* per row, the Transition Update's reference named
  frames_input,             \* Update's local FramesLayerInputData
  target_input,             \* Update's local TargetLayerInputData
  solver_steps,             \* solver_->Step(1) calls made by the current Update
  \* ---- PreprocessScreen ----
  raw_screen,               \* [width, height, pixels]: the ALEScreen argument
  ppc,                      \* position inside PreprocessScreen
  i, j, x, y,               \* the four loop counters
  x_ratio_in_resulting_pixel,
  y_ratio_in_resulting_pixel,
  resulting_color,          \* the uint8_t accumulator
  read_index,               \* index of raw_pixels read by the last inner iteration
  weight_sum,               \* history: sum of x weight * y weight over the cell so far
  exact_sum,                \* history: sum of x weight * y weight * grayscale so far
  screen                    \* the FrameData being produced

dqn_vars == <<replay_memory_capacity_, replay_memory_, pushes, pc, update_size,
              transitions, transition, frames_input, target_input, solver_steps>>
pre_vars == <<raw_screen, ppc, i, j, x, y, x_ratio_in_resulting_pixel,
              y_ratio_in_resulting_pixel, resulting_color, read_index,
              weight_sum, exact_sum, screen>>
vars == <<dqn_vars, pre_vars>>

Min(a, b) == IF a <= b THEN a ELSE b

(***************************************************************************)
(* Transitions: (InputFrames, Action, reward, optional next frame), plus   *)
(* the history field id, the ordinal of the push that stored it.           *)
(***************************************************************************)
StateFrame(k) == [p \in 0 .. kCroppedFrameDataSize - 1 |-> (16 * k + p) % 256]
NextFrame == [p \in 0 .. kCroppedFrameDataSize - 1 |-> 255 - p]
\* One transition: the state is a stack of kInputFrameCount frames.
MakeTransition(action, reward, next) ==
  [state |-> [k \in 0 .. kInputFrameCount - 1 |-> StateFrame(k)],
   action |-> action, reward |-> reward, next |-> next, id |-> 0]

\* The transitions handed to AddTransition: rewards inside [-1, 1] (both ends)
\* and outside it on either side, terminal and not, and one action that is
\* no output of the network.
TransitionInputs ==
  { MakeTransition(0, 1, <<>>),
    MakeTransition(0, -1, <<NextFrame>>),
    MakeTransition(0, 2, <<NextFrame>>),
    MakeTransition(0, -2, <<>>),
    MakeTransition(kOutputCount, 1, <<>>) }

DqnInit ==
  /\ replay_memory_capacity_ \in 1 .. MaxCapacity
  /\ replay_memory_ = <<>>
  /\ pushes = 0
  /\ pc = "idle"
  /\ update_size = 0
  /\ transitions = <<>>
  /\ transition = <<>>
  /\ frames_input = <<>>
  /\ target_input = <<>>
  /\ solver_steps = 0

(***************************************************************************)
(* DQN::AddTransition                                                      *)
(***************************************************************************)
\* Faulty variants of PushBack: no eviction; eviction of the newest entry.
PushBackNoEvict(memory, capacity, t) == Append(memory, t)
PushBackEvictNewest(memory, capacity, t) ==
  Append(IF Len(memory) = capacity
           THEN SubSeq(memory, 1, Len(memory) - 1) ELSE memory, t)

PushBack(memory, capacity, t) ==
  Append(IF Len(memory) = capacity THEN Tail(memory) ELSE memory, t)

AddTransition(t) ==
  /\ pc = "idle"
  /\ pushes < MaxPush
  /\ replay_memory_' =
       PushBack(replay_memory_, replay_memory_capacity_,
                [t EXCEPT !.id = pushes + 1])
  /\ pushes' = pushes + 1
  /\ UNCHANGED <<replay_memory_capacity_, pc, update_size, transitions,
                 transition, frames_input, target_input, solver_steps>>

(***************************************************************************)
(* DQN::Update                                                             *)
(***************************************************************************)
\* A faulty variant of SampleRange: the upper bound size instead of size - 1.
SampleRangeInclusive(size) == 0 .. size

\* std::uniform_int_distribution<int>(0, size - 1): the values one draw can give.
SampleRange(size) == 0 .. size - 1

\* The two assertions on a sampled transition.
ActionAssert(t) == t.action < kOutputCount
\* A faulty variant of RewardAssert: the upper bound is not checked.
RewardAssertLowerOnly(t) == t.reward >= -1
RewardAssert(t) == t.reward >= -1 /\ t.reward <= 1
RowAsserts(t) == ActionAssert(t) /\ RewardAssert(t)

\* The value row `row` of target_input gets at offset p of the row.
TargetValue(t, p) == IF t.next = <<>> THEN 0 ELSE t.next[1][p]

\* A faulty variant of AssembleTarget: rows laid out with the stride of frames_input.
AssembleTargetInputStride(rows) ==
  [q \in 0 .. kMinibatchSize * kCroppedFrameDataSize - 1 |->
     TargetValue(rows[(q \div kInputDataSize) + 1],
                 q % kCroppedFrameDataSize)]

\* target_input after the rows 0 .. kMinibatchSize-1 were written from `rows`.
AssembleTarget(rows) ==
  [q \in 0 .. kMinibatchSize * kCroppedFrameDataSize - 1 |->
     TargetValue(rows[(q \div kCroppedFrameDataSize) + 1],
                 q % kCroppedFrameDataSize)]

\* frames_input after the rows were written: row r holds the kInputFrameCount
\* frames of the state, in stack order, each flattened.
AssembleFrames(rows) ==
  [q \in 0 .. kMinibatchSize * kInputDataSize - 1 |->
     LET r == q \div kInputDataSize
         k == (q % kInputDataSize) \div kCroppedFrameDataSize
         p == q % kCroppedFrameDataSize
     IN rows[r + 1].state[k][p]]

\* The body of Update once the indices idx were drawn and the rows read.
UpdateBody(size, idx, rows) ==
  /\ update_size' = size
  /\ transitions' = idx
  /\ transition' = rows
  /\ IF \A r \in 1 .. kMinibatchSize : RowAsserts(rows[r])
       THEN /\ frames_input' = AssembleFrames(rows)
            /\ target_input' = AssembleTarget(rows)
            /\ solver_steps' = 1
            /\ pc' = "Update"
       ELSE /\ frames_input' = <<>>
            /\ target_input' = <<>>
            /\ solver_steps' = 0
            /\ pc' = "aborted"
  /\ UNCHANGED <<replay_memory_capacity_, replay_memory_, pushes>>

\* replay_memory_[idx[r]] for every row r.  std::deque::operator[] is not
\* range checked: an index outside the deque reads whatever is there.
ReadRows(memory, idx) ==
  IF \A r \in 1 .. kMinibatchSize : idx[r] \in 0 .. Len(memory) - 1
    THEN { [r \in 1 .. kMinibatchSize |-> memory[idx[r] + 1]] }
    ELSE [1 .. kMinibatchSize -> TransitionInputs]

\* Update on a memory that holds at least one transition.
UpdateSampled ==
  /\ pc = "idle"
  /\ Len(replay_memory_) >= 1
  /\ \E idx \in [1 .. kMinibatchSize -> SampleRange(Len(replay_memory_))] :
       \E rows \in ReadRows(replay_memory_, idx) :
         UpdateBody(Len(replay_memory_), idx, rows)

\* Update on an empty memory: the distribution is built with bounds (0, -1)
\* and the deque is indexed out of range, both undefined.  The builds either
\* fault or carry on with whatever integers and bytes they found.
GarbageIndices == {-1, 0, 1}
UpdateEmptyGarbage ==
  /\ pc = "idle"
  /\ Len(replay_memory_) = 0
  /\ \E idx \in [1 .. kMinibatchSize -> GarbageIndices] :
       \E rows \in ReadRows(replay_memory_, idx) :
         UpdateBody(0, idx, rows)

UpdateEmptyCrash ==
  /\ pc = "idle"
  /\ Len(replay_memory_) = 0
  /\ pc' = "crashed"
  /\ update_size' = 0
  /\ UNCHANGED <<replay_memory_capacity_, replay_memory_, pushes, transitions,
                 transition, frames_input, target_input, solver_steps>>

\* Update returns: its locals go out of scope.
UpdateReturn ==
  /\ pc = "Update"
  /\ pc' = "idle"
  /\ update_size' = 0
  /\ transitions' = <<>>
  /\ transition' = <<>>
  /\ frames_input' = <<>>
  /\ target_input' = <<>>
  /\ solver_steps' = 0
  /\ UNCHANGED <<replay_memory_capacity_, replay_memory_, pushes>>

(***************************************************************************)
(* PixelToRGB, RGBToGrayscale, PixelToGrayscale                            *)
(***************************************************************************)
ntsc_to_rgb ==
  <<
    0, 0, 4868682, 0, 7303023, 0, 9342606, 0,
    11184810, 0, 12632256, 0, 14079702, 0, 15527148, 0,
    4737024, 0, 6908175, 0, 8816157, 0, 10658346, 0,
    12303157, 0, 13816384, 0, 15263818, 0, 16579668, 0,
    8137728, 0, 9455633, 0, 10641953, 0, 11827760, 0,
    12816445, 0, 13804618, 0, 14661461, 0, 15517792, 0,
    9444352, 0, 10696981, 0, 11883304, 0, 13003834, 0,
    13992522, 0, 14915417, 0, 15772263, 0, 16563316, 0,
    9699328, 0, 10951194, 0, 12071474, 0, 13125704, 0,
    14048348, 0, 14970735, 0, 15761536, 0, 16552080, 0,
    8650852, 0, 9902458, 0, 11022479, 0, 12076706, 0,
    12999091, 0, 13921475, 0, 14712018, 0, 15502560, 0,
    5243012, 0, 6822298, 0, 8204461, 0, 9586368, 0,
    10770896, 0, 11889888, 0, 12942574, 0, 13929724, 0,
    1310864, 0, 3349155, 0, 5124789, 0, 6834374, 0,
    8346837, 0, 9793507, 0, 11108592, 0, 12357884, 0,
    148, 0, 1579687, 0, 2962104, 0, 4344008, 0,
    5528790, 0, 6647780, 0, 7700720, 0, 8687868, 0,
    7304, 0, 1588125, 0, 2971568, 0, 4354754, 0,
    5540562, 0, 6660321, 0, 7714287, 0, 8702204, 0,
    12388, 0, 1593472, 0, 2977176, 0, 4360368, 0,
    5546181, 0, 6666201, 0, 7720171, 0, 8708348, 0,
    16432, 0, 1598030, 0, 2982249, 0, 4365954, 0,
    5552281, 0, 6672814, 0, 7727042, 0, 8715476, 0,
    17408, 0, 1730074, 0, 3310642, 0, 4759624, 0,
    6077020, 0, 7328367, 0, 8448128, 0, 9501840, 0,
    1326080, 0, 3497752, 0, 5406253, 0, 7248962, 0,
    8894292, 0, 10408037, 0, 11855733, 0, 13171844, 0,
    3160064, 0, 5265686, 0, 7173675, 0, 8950334, 0,
    10529615, 0, 12042847, 0, 13424750, 0, 14740604, 0,
    4729856, 0, 6901012, 0, 8808998, 0, 10651192, 0,
    12296007, 0, 13809238, 0, 15256675, 0, 16572528, 0
  >>

PixelToRGB(pixel) ==
  LET rgb == ntsc_to_rgb[pixel + 1]
  IN <<rgb \div 65536, (rgb \div 256) % 256, rgb % 256>>

\* 0.21 r + 0.72 g + 0.07 b, converted to uint8_t (truncation).
RGBToGrayscale(rgb) == (21 * rgb[1] + 72 * rgb[2] + 7 * rgb[3]) \div 100

PixelToGrayscale(pixel) == RGBToGrayscale(PixelToRGB(pixel))

(***************************************************************************)
(* PreprocessScreen                                                        *)
(***************************************************************************)
\* The raw screens: every width and height with height > width, and a few
\* pixel contents (the palette code at an even and at an odd buffer index).
PixelCodes == {<<0, 0>>, <<14, 14>>, <<14, 30>>}
RawScreens ==
  { [width |-> w, height |-> h, even |-> c[1], odd |-> c[2]] :
      w \in 1 .. MaxWidth, h \in 1 .. MaxHeight, c \in PixelCodes }

raw_screen_width == raw_screen.width
raw_screen_height == raw_screen.height
\* raw_pixels[idx] for an index inside the buffer.
raw_pixels(idx) == IF idx % 2 = 0 THEN raw_screen.even ELSE raw_screen.odd

cropped_screen_height == (92 * raw_screen_height) \div 100
start_y == (raw_screen_height - cropped_screen_height) \div 2
start_x == 8
cropped_screen_width == raw_screen_width - start_x
\* x_ratio = cropped_screen_width / kCroppedFrameSize and
\* y_ratio = cropped_screen_height / kCroppedFrameSize: the numerators.
x_ratio == cropped_screen_width
y_ratio == cropped_screen_height

\* static_cast<int>(std::floor(k * ratio)), ratio = num / kCroppedFrameSize
FloorOfMultiple(k, num) == (k * num) \div kCroppedFrameSize

first_x == start_x + FloorOfMultiple(j, x_ratio)
last_x == start_x + FloorOfMultiple(j + 1, x_ratio)
first_y == start_y + FloorOfMultiple(i, y_ratio)
last_y == start_y + FloorOfMultiple(i + 1, y_ratio)

\* A faulty variant of XWeight: the last pixel's weight without "+ start_x".
XWeightNoOffset(xx) ==
  IF xx = first_x
    THEN kCroppedFrameSize * (xx + 1) - j * x_ratio - kCroppedFrameSize * start_x
    ELSE IF xx = last_x
      THEN x_ratio * (j + 1) - kCroppedFrameSize * xx
      ELSE kCroppedFrameSize

\* The per-axis weights, as numerators over kCroppedFrameSize
\* (1.0 is kCroppedFrameSize).
XWeight(xx) ==
  IF xx = first_x
    THEN kCroppedFrameSize * (xx + 1) - j * x_ratio - kCroppedFrameSize * start_x
    ELSE IF xx = last_x
      THEN x_ratio * (j + 1) - kCroppedFrameSize * xx + kCroppedFrameSize * start_x
      ELSE kCroppedFrameSize

YWeight(yy) ==
  IF yy = first_y
    THEN kCroppedFrameSize * (yy + 1) - i * y_ratio - kCroppedFrameSize * start_y
    ELSE IF yy = last_y
      THEN y_ratio * (i + 1) - kCroppedFrameSize * yy + kCroppedFrameSize * start_y
      ELSE kCroppedFrameSize

WeightAssert(w) == w >= 0 /\ w <= kCroppedFrameSize

\* static_cast<int>(y * raw_screen_width + x)
PixelIndex(xx, yy) == yy * raw_screen_width + xx

\* The palette codes the read of raw_pixels[idx] can give: the pixel, or,
\* outside the buffer, whatever byte lies there.
PixelsAt(idx) ==
  IF idx \in 0 .. raw_screen_width * raw_screen_height - 1
    THEN {raw_pixels(idx)}
    ELSE {0, 14}

\* A uint8_t whose value the standard leaves open: the result of converting
\* to uint8_t a double that is out of its range, infinite or NaN, and
\* everything computed from it.
Indeterminate == -1

\* resulting_color += (xw / x_ratio) * (yw / y_ratio) * g: the double
\* resulting_color + xw * yw * g / (x_ratio * y_ratio), truncated toward zero
\* when it lies in (-1, 256).
AddColor(color, xw, yw, g) ==
  LET d0 == x_ratio * y_ratio
      n0 == color * d0 + xw * yw * g
      d == IF d0 < 0 THEN -d0 ELSE d0
      n == IF d0 < 0 THEN -n0 ELSE n0
  IN IF color = Indeterminate \/ d = 0 THEN Indeterminate
     ELSE IF n >= 0 /\ n < 256 * d THEN n \div d
     ELSE IF n < 0 /\ -n < d THEN 0
     ELSE Indeterminate

PreInit ==
  /\ raw_screen \in RawScreens
  /\ raw_screen.height > raw_screen.width
  /\ ppc = "cell"
  /\ i = 0
  /\ j = 0
  /\ x = 0
  /\ y = 0
  /\ x_ratio_in_resulting_pixel = kCroppedFrameSize
  /\ y_ratio_in_resulting_pixel = kCroppedFrameSize
  /\ resulting_color = 0
  /\ read_index = 0
  /\ weight_sum = 0
  /\ exact_sum = 0
  /\ screen = [p \in 0 .. kCroppedFrameDataSize - 1 |-> 0]

\* Lines 92-98: the bounds of cell (i, j) and the cleared accumulator.
EnterCell ==
  /\ ppc = "cell"
  /\ x' = first_x
  /\ resulting_color' = 0
  /\ weight_sum' = 0
  /\ exact_sum' = 0
  /\ ppc' = "x"
  /\ UNCHANGED <<raw_screen, i, j, y, x_ratio_in_resulting_pixel,
                 y_ratio_in_resulting_pixel, read_index, screen>>

\* Lines 99-107: one test of the x loop and, inside it, the x weight.
XLoop ==
  /\ ppc = "x"
  /\ IF x <= last_x
       THEN /\ x_ratio_in_resulting_pixel' = XWeight(x)
            /\ y' = first_y
            /\ ppc' = IF WeightAssert(XWeight(x)) THEN "y" ELSE "assert_failed"
       ELSE /\ ppc' = "store"
            /\ UNCHANGED <<x_ratio_in_resulting_pixel, y>>
  /\ UNCHANGED <<raw_screen, i, j, x, y_ratio_in_resulting_pixel,
                 resulting_color, read_index, weight_sum, exact_sum,
                 screen>>

\* Lines 108-123: one test of the y loop and, inside it, the y weight, the
\* read of the source pixel and the accumulation.
YLoop ==
  /\ ppc = "y"
  /\ IF y <= last_y
       THEN /\ y_ratio_in_resulting_pixel' = YWeight(y)
            /\ IF WeightAssert(YWeight(y))
                 THEN \E pixel \in PixelsAt(PixelIndex(x, y)) :
                        LET grayscale == PixelToGrayscale(pixel)
                            xw == x_ratio_in_resulting_pixel
                            yw == YWeight(y)
                        IN /\ read_index' = PixelIndex(x, y)
                           /\ resulting_color' =
                                AddColor(resulting_color, xw, yw, grayscale)
                           /\ weight_sum' = weight_sum + xw * yw
                           /\ exact_sum' = exact_sum + xw * yw * grayscale
                           /\ y' = y + 1
                           /\ ppc' = "y"
                           /\ x' = x
                 ELSE /\ ppc' = "assert_failed"
                      /\ UNCHANGED <<x, y, resulting_color, read_index,
                                     weight_sum, exact_sum>>
       ELSE /\ x' = x + 1
            /\ ppc' = "x"
            /\ UNCHANGED <<y, y_ratio_in_resulting_pixel, resulting_color,
                           read_index, weight_sum, exact_sum>>
  /\ UNCHANGED <<raw_screen, i, j, x_ratio_in_resulting_pixel, screen>>

\* Line 125 and the steps of the two outer loops.
StoreCell ==
  /\ ppc = "store"
  /\ screen' = [screen EXCEPT ![i * kCroppedFrameSize + j] = resulting_color]
  /\ IF j + 1 < kCroppedFrameSize
       THEN j' = j + 1 /\ i' = i /\ ppc' = "cell"
       ELSE IF i + 1 < kCroppedFrameSize
         THEN j' = 0 /\ i' = i + 1 /\ ppc' = "cell"
         ELSE j' = j /\ i' = i /\ ppc' = "done"
  /\ UNCHANGED <<raw_screen, x, y, x_ratio_in_resulting_pixel,
                 y_ratio_in_resulting_pixel, resulting_color, read_index,
                 weight_sum, exact_sum>>

(***************************************************************************)
(* Specifications                                                          *)
(***************************************************************************)
\* The preprocessing variables while the replay memory is exercised.
PreIdle ==
  /\ raw_screen = [width |-> 1, height |-> 2, even |-> 0, odd |-> 0]
  /\ ppc = "done"
  /\ i = 0 /\ j = 0 /\ x = 0 /\ y = 0
  /\ x_ratio_in_resulting_pixel = kCroppedFrameSize
  /\ y_ratio_in_resulting_pixel = kCroppedFrameSize
  /\ resulting_color = 0
  /\ read_index = 0
  /\ weight_sum = 0
  /\ exact_sum = 0
  /\ screen = [p \in 0 .. kCroppedFrameDataSize - 1 |-> 0]

Init == DqnInit /\ PreIdle

Next ==
  \/ \E t \in TransitionInputs : AddTransition(t) /\ UNCHANGED pre_vars
  \/ UpdateSampled /\ UNCHANGED pre_vars
  \/ UpdateEmptyGarbage /\ UNCHANGED pre_vars
  \/ UpdateEmptyCrash /\ UNCHANGED pre_vars
  \/ UpdateReturn /\ UNCHANGED pre_vars

Spec == Init /\ [][Next]_vars

\* The replay memory while one screen is preprocessed.
DqnIdle == DqnInit /\ replay_memory_capacity_ = 1

InitPreprocess == DqnIdle /\ PreInit

NextPreprocess ==
  \/ EnterCell /\ UNCHANGED dqn_vars
  \/ XLoop /\ UNCHANGED dqn_vars
  \/ YLoop /\ UNCHANGED dqn_vars
  \/ StoreCell /\ UNCHANGED dqn_vars

SpecPreprocess == InitPreprocess /\ [][NextPreprocess]_vars

C2_StrictFifo ==
  /\ Len(replay_memory_) = Min(pushes, replay_memory_capacity_)
  /\ \A k \in 1 .. Len(replay_memory_) :
       replay_memory_[k].id = pushes - Len(replay_memory_) + k

\* Capacity 3 after four pushes: the memory is [t2, t3, t4].
C2_Witness ==
  /\ replay_memory_capacity_ = 3
  /\ pushes = 4
  /\ [k \in 1 .. Len(replay_memory_) |-> replay_memory_[k].id] = <<2, 3, 4>>

\* C3: an Update entered with an empty memory draws no index, assembles no
\* minibatch and makes no training step.
C3_EmptyUpdateRefused ==
  (pc # "idle" /\ update_size = 0) =>
    /\ transitions = <<>>
    /\ frames_input = <<>>
    /\ target_input = <<>>
    /\ solver_steps = 0

\* C4: with N >= 1 transitions in memory, each of the kMinibatchSize indices
\* Update draws lies in [0, N) and names the transition the row is built from.
C4_IndicesInRange ==
  (pc \in {"Update", "aborted"} /\ update_size >= 1) =>
    /\ DOMAIN transitions = 1 .. kMinibatchSize
    /\ \A r \in 1 .. kMinibatchSize :
         /\ transitions[r] >= 0
         /\ transitions[r] < update_size
         /\ transitions[r] < Len(replay_memory_)
         /\ transition[r] = replay_memory_[transitions[r] + 1]

\* An Update that drew both the last and the first index of a memory of two
\* or more transitions.
C4_Witness ==
  /\ pc = "Update"
  /\ update_size >= 2
  /\ transitions[1] = update_size - 1
  /\ transitions[kMinibatchSize] = 0

\* C5: in the assembled minibatch, target row r is all zeros when the sampled
\* transition is terminal and is that transition's next frame, flattened,
\* otherwise.
C5_TargetRows ==
  (pc = "Update" /\ update_size >= 1) =>
    \A r \in 1 .. kMinibatchSize :
      LET sampled == replay_memory_[transitions[r] + 1]
          row == [p \in 0 .. kCroppedFrameDataSize - 1 |->
                    target_input[(r - 1) * kCroppedFrameDataSize + p]]
      IN IF sampled.next = <<>>
           THEN \A p \in 0 .. kCroppedFrameDataSize - 1 : row[p] = 0
           ELSE row = sampled.next[1]

\* A minibatch whose first row is terminal and whose last row carries a next
\* frame that is not all zeros.
C5_Witness ==
  /\ pc = "Update"
  /\ update_size >= 1
  /\ transition[1].next = <<>>
  /\ transition[kMinibatchSize].next # <<>>
  /\ \E p \in 0 .. kCroppedFrameDataSize - 1 :
       target_input[(kMinibatchSize - 1) * kCroppedFrameDataSize + p] # 0

\* C6: no Update reaches its training step with a minibatch row built from a
\* transition whose reward lies outside [-1, 1].
C6_RewardValidated ==
  solver_steps >= 1 =>
    \A r \in 1 .. kMinibatchSize :
      transition[r].reward >= -1 /\ transition[r].reward <= 1

\* An Update on a stored transition with reward 2 that ended in the failed
\* assertion, before any training step.
C6_Witness ==
  /\ pc = "aborted"
  /\ update_size >= 1
  /\ solver_steps = 0
  /\ \E r \in 1 .. kMinibatchSize :
       /\ transition[r].reward > 1
       /\ transition[r] = replay_memory_[transitions[r] + 1]

(***************************************************************************)
(* Properties of PreprocessScreen (checked under SpecPreprocess)           *)
(***************************************************************************)
\* C7: when the loops of a cell are over, the weights
\* (x weight / x_ratio) * (y weight / y_ratio) of the pixels visited sum to 1.
\* Stated for the screens wider than the start_x columns that are cropped.
C7_WeightsSumToOne ==
  (ppc = "store" /\ raw_screen_width > start_x) =>
    weight_sum = x_ratio * y_ratio

\* C8: every per-axis weight lies in [0, 1]: neither weight assertion fails.
C8_WeightsInUnitInterval ==
  /\ ppc # "assert_failed"
  /\ WeightAssert(x_ratio_in_resulting_pixel)
  /\ WeightAssert(y_ratio_in_resulting_pixel)

\* The inner loops have just weighted the last row of the last column of a
\* cell that spans several rows and columns, both weights fractional.
C8_Witness ==
  /\ ppc = "y"
  /\ x = last_x
  /\ x > first_x + 1
  /\ y = last_y + 1
  /\ last_y > first_y + 1
  /\ x_ratio_in_resulting_pixel \in 1 .. kCroppedFrameSize - 1
  /\ y_ratio_in_resulting_pixel \in 1 .. kCroppedFrameSize - 1

\* C9: the value stored for a cell is the integer part of the whole
\* area-weighted sum, in [0, 255].  Stated for the screens whose cropped area
\* is at least as large as the frame, where the weights of a cell sum to 1.
C9_StoredValueIsTotal ==
  (ppc = "store" /\ x_ratio >= kCroppedFrameSize /\ y_ratio >= kCroppedFrameSize) =>
    /\ resulting_color \in 0 .. 255
    /\ resulting_color = exact_sum \div (x_ratio * y_ratio)

\* C10: every source pixel read lies inside the raw screen: column in
\* [start_x, width), row in [0, height), index in [0, width * height).
\* After an inner iteration the pixel read is (x, y - 1).  Stated for the
\* screens wider than the start_x columns that are cropped.
C10_ReadsInsideScreen ==
  (ppc = "y" /\ y > first_y /\ raw_screen_width > start_x) =>
    /\ x >= start_x
    /\ x < raw_screen_width
    /\ y - 1 >= 0
    /\ y - 1 < raw_screen_height
    /\ read_index \in 0 .. raw_screen_width * raw_screen_height - 1

=============================================================================
